---- MODULE Spec2Model ----
(***************************************************************************)
(* Kernel launcher of fs-kernels (packages/fs-kernels/src/spawnteract.ts): *)
(* launch / launchSpec / writeConnectionFile /                             *)
(* launchSpecFromConnectionInfo / cleanup, as a state machine whose steps  *)
(* are the runs of the event loop between two suspension points.           *)
(***************************************************************************)
EXTENDS FiniteSets, Integers, Sequences, TLC

VARIABLES
    pc,              \* per launch: the await the call is suspended at, or how it settled
    args,            \* per launch: the arguments of the call (specs: the map looked up)
    kernelSpec,      \* per launch: the kernelSpec handed to launchSpec
    calls,           \* per launch: how often each collaborator was called
    ports,           \* per launch: result of getPorts
    config,          \* per launch: the JupyterConnectionInfo
    connectionFile,  \* per launch: the connection file path
    mkdirp,          \* per launch: state of the un-awaited mkdirp call
    child,           \* per launch: the execa child process and its listeners
    outcome,         \* per launch: the error the promise rejected with ("" if none)
    unlinks,         \* per launch: the cleanup invocations and what unlinkSync did
    channels,        \* per launch: the Channels handle of createMainChannel
    files,           \* the files of the runtime directory: path -> content
    dirExists,       \* whether the runtime directory exists
    coerces,         \* whether this Node's fs.writeFile coerces an object to a string
    uuidCount,       \* number of uuid.v4() values drawn so far
    console,         \* errors passed to console.log
    uncaught         \* exceptions thrown outside every promise chain

vars == <<pc, args, kernelSpec, calls, ports, config, connectionFile, mkdirp,
          child, outcome, unlinks, channels, files, dirExists, coerces,
          uuidCount, console, uncaught>>

(***************************************************************************)
(* Bounds                                                                  *)
(***************************************************************************)
MaxErrors == 2
MaxLaunches == 2
MaxFindAll == 2

\* The calls in flight. Each call owns its state; calls share the runtime
\* directory, the uuid source and the process.
Launches == 1..MaxLaunches

(***************************************************************************)
(* Program constants                                                       *)
(***************************************************************************)
DefaultPort == 9000
PortCount == 5
ProtocolVersion == 5
Placeholder == "{connection_file}"

(***************************************************************************)
(* JavaScript values                                                       *)
(***************************************************************************)
EmptyObject == [k \in {} |-> ""]

\* Object.assign({}, a, b): own properties of b overwrite those of a.
ObjectAssign(a, b) == b @@ a

\* Property names every plain object inherits from Object.prototype.
ObjectPrototypeKeys == {"toString", "constructor"}

Undefined == [defined |-> FALSE, argv |-> <<>>, env |-> EmptyObject]

\* specs[kernelName] followed by .spec: an own entry, else an inherited
\* Object.prototype member (truthy, without a spec property), else undefined.
GetSpec(specs, kernelName) ==
    IF kernelName \in DOMAIN specs
    THEN [truthy |-> TRUE, spec |-> specs[kernelName]]
    ELSE IF kernelName \in ObjectPrototypeKeys
         THEN [truthy |-> TRUE, spec |-> Undefined]
         ELSE [truthy |-> FALSE, spec |-> Undefined]

(***************************************************************************)
(* The file system and the connection file's content                       *)
(***************************************************************************)
NoConfig ==
    [version |-> 0, key |-> "", signature_scheme |-> "", transport |-> "",
     ip |-> "", hb_port |-> 0, control_port |-> 0, shell_port |-> 0,
     stdin_port |-> 0, iopub_port |-> 0]

Absent == [fmt |-> "absent", obj |-> NoConfig]

\* What fs.writeFile stores for a data argument that is a plain object: the
\* string it coerces to, '' + data = "[object Object]".
ObjectToString(obj) == [fmt |-> "[object Object]", obj |-> NoConfig]

\* The data argument of writeFile(connectionFile, config) as it reaches the
\* disk: config is passed as the object itself.
WriteFileData(cfg) == ObjectToString(cfg)

\* uuid.v4(): random values, taken to be pairwise different; the k-th value
\* drawn by call l.
Uuid(l, k) == "u" \o ToString(l) \o "-" \o ToString(k)

\* A file name that leaves the uuid out.
PathJoinFixed(uuid) == "/runtime/kernel.json"

\* path.join(runtimeDir, `kernel-${uuid}.json`)
PathJoin(uuid) == "/runtime/kernel-" \o uuid \o ".json"

\* Every call draws two uuids: the key and the file name.
Paths == {PathJoin(Uuid(l, k)) : l \in Launches, k \in 1..2}

\* fs.unlinkSync(path): removes the file, or throws.
UnlinkSync(fs, path, fails) ==
    IF fs[path].fmt = "absent"
    THEN [files |-> fs, err |-> "ENOENT"]
    ELSE IF fails
         THEN [files |-> fs, err |-> "EPERM"]
         ELSE [files |-> [fs EXCEPT ![path] = Absent], err |-> "none"]

\* A cleanup that lets the unlinkSync error escape.
CleanupNoCatch(fs, path, fails) ==
    LET r == UnlinkSync(fs, path, fails)
    IN  [files |-> r.files, err |-> r.err, logged |-> "",
         thrown |-> IF r.err = "none" THEN "" ELSE r.err]

\* A cleanup that never calls unlinkSync.
CleanupNoUnlink(fs, path, fails) ==
    [files |-> fs, err |-> "skipped", logged |-> "", thrown |-> ""]

\* cleanup(connectionFile): try { fs.unlinkSync } catch (e) { return; }
\* Whatever unlinkSync throws, nothing is logged and nothing is rethrown.
cleanup(fs, path, fails) ==
    LET r == UnlinkSync(fs, path, fails)
    IN  [files |-> r.files, err |-> r.err, logged |-> "", thrown |-> ""]

(***************************************************************************)
(* Ports and the connection info                                           *)
(***************************************************************************)
RECURSIVE NextFree(_, _)
NextFree(p, busy) == IF p \in busy THEN NextFree(p + 1, busy) ELSE p

\* A getPorts that probes from the same port again after each find.
RECURSIVE GetPortsNoAdvance(_, _, _)
GetPortsNoAdvance(count, port, busy) ==
    IF count = 0
    THEN <<>>
    ELSE LET p == NextFree(port, busy)
         IN  <<p>> \o GetPortsNoAdvance(count - 1, p, busy)

\* portfinder.getPorts(count, {port}): the first `count` free ports at or
\* above `port`, probed one after the other.
RECURSIVE GetPorts(_, _, _)
GetPorts(count, port, busy) ==
    IF count = 0
    THEN <<>>
    ELSE LET p == NextFree(port, busy)
         IN  <<p>> \o GetPorts(count - 1, p + 1, busy)

BusyPortSets == {{}, {DefaultPort + 1, DefaultPort + 2}}

\* A connection info with the control and shell ports exchanged.
createConnectionInfoSwapped(ps, uuid) ==
    [version |-> ProtocolVersion,
     key |-> uuid,
     signature_scheme |-> "hmac-sha256",
     transport |-> "tcp",
     ip |-> "127.0.0.1",
     hb_port |-> ps[1],
     control_port |-> ps[3],
     shell_port |-> ps[2],
     stdin_port |-> ps[4],
     iopub_port |-> ps[5]]

createConnectionInfo(ps, uuid) ==
    [version |-> ProtocolVersion,
     key |-> uuid,
     signature_scheme |-> "hmac-sha256",
     transport |-> "tcp",
     ip |-> "127.0.0.1",
     hb_port |-> ps[1],
     control_port |-> ps[2],
     shell_port |-> ps[3],
     stdin_port |-> ps[4],
     iopub_port |-> ps[5]]

(***************************************************************************)
(* argv, spawn options and the child process                               *)
(***************************************************************************)
\* An expansion that replaces only the first placeholder.
ExpandFirstOnly(argv, path) ==
    [i \in DOMAIN argv |->
        IF argv[i] = Placeholder /\ \A j \in 1..(i - 1) : argv[j] # Placeholder
        THEN path ELSE argv[i]]

\* kernelSpec.argv.map(x => x === "{connection_file}" ? connectionFile : x)
ExpandArgv(argv, path) ==
    [i \in DOMAIN argv |-> IF argv[i] = Placeholder THEN path ELSE argv[i]]

defaultSpawnOptions ==
    [k \in {"cleanupConnectionFile", "stdio"} |->
        IF k = "cleanupConnectionFile" THEN "true" ELSE "ignore"]

ProcessEnv == [k \in {"PATH", "K"} |-> IF k = "PATH" THEN "/usr/bin" ELSE "ambient"]

\* Object.assign({}, process.env, kernelSpec.env)
SpecEnv(spec) == ObjectAssign(ObjectAssign(EmptyObject, ProcessEnv), spec.env)

\* Object.assign({}, defaultSpawnOptions, { env }, spawnOptions)
FullSpawnOptions(spec, spawnOptions) ==
    ObjectAssign(
        ObjectAssign(
            ObjectAssign(EmptyObject, defaultSpawnOptions),
            [k \in {"env"} |-> SpecEnv(spec)]),
        spawnOptions)

\* A test of the option for truthiness instead of !== false.
ShouldCleanupTruthy(full) == full["cleanupConnectionFile"] = "true"

\* fullSpawnOptions.cleanupConnectionFile !== false
ShouldCleanup(full) == full["cleanupConnectionFile"] # "false"

\* A registration that leaves out the "error" listener.
RegisterExitOnly(full) ==
    IF ShouldCleanup(full)
    THEN [exit |-> 1, error |-> 0]
    ELSE [exit |-> 0, error |-> 0]

\* runningKernel.on("exit", ...); runningKernel.on("error", ...)
RegisterListeners(full) ==
    IF ShouldCleanup(full)
    THEN [exit |-> 1, error |-> 1]
    ELSE [exit |-> 0, error |-> 0]

\* The environment execa gives the child for options.env: its extendEnv
\* option, true unless the caller clears it, lays process.env under it.
ExecaEnv(env) == ObjectAssign(ObjectAssign(EmptyObject, ProcessEnv), env)

NoChild ==
    [state |-> "none", file |-> "", args |-> <<>>, env |-> EmptyObject,
     stdio |-> "", exit |-> 0, error |-> 0, exits |-> 0, errors |-> 0,
     signal |-> ""]

\* A child whose listeners are not yet registered when it can emit events
\* (the registration moved behind the await).
ExecaUnobserved(argv, full, exeExists) ==
    [state |-> IF exeExists THEN "alive" ELSE "noexec",
     file |-> argv[1],
     args |-> Tail(argv),
     env |-> ExecaEnv(full["env"]),
     stdio |-> full["stdio"],
     exit |-> 0,
     error |-> 0,
     exits |-> 0,
     errors |-> 0,
     signal |-> ""]

\* execa(argv[0], argv.slice(1), fullSpawnOptions) and the registration of
\* the listeners on the child it returns.
Execa(argv, full, exeExists) ==
    [state |-> IF exeExists THEN "alive" ELSE "noexec",
     file |-> argv[1],
     args |-> Tail(argv),
     env |-> ExecaEnv(full["env"]),
     stdio |-> full["stdio"],
     exit |-> RegisterListeners(full).exit,
     error |-> RegisterListeners(full).error,
     exits |-> 0,
     errors |-> 0,
     signal |-> ""]

(***************************************************************************)
(* Inputs of the calls                                                     *)
(***************************************************************************)
Python3Spec ==
    [defined |-> TRUE,
     argv |-> <<"python3", "-m", "ipykernel_launcher", "-f", Placeholder>>,
     env |-> EmptyObject]

IRSpec ==
    [defined |-> TRUE,
     argv |-> <<"R", Placeholder, "--file={connection_file}", Placeholder>>,
     env |-> [k \in {"K", "R_HOME"} |-> IF k = "K" THEN "spec" ELSE "/usr/lib/R"]]

KernelSpecs == {Python3Spec, IRSpec}

InstalledSpecs == [n \in {"python3", "ir"} |-> IF n = "python3" THEN Python3Spec ELSE IRSpec]
NoSpecs == [n \in {} |-> Undefined]

SpecsMaps == {InstalledSpecs, NoSpecs}

\* What findAll() can resolve with: a map, or no map at all (undefined),
\* which `!specs` takes for a missing argument.
FindAllResults ==
    {[truthy |-> TRUE, specs |-> sp] : sp \in SpecsMaps}
        \cup {[truthy |-> FALSE, specs |-> NoSpecs]}
KernelNames == {"python3", "ir", "julia", "toString"}

CleanupChoices ==
    {EmptyObject} \cup
    {[k \in {"cleanupConnectionFile"} |-> v] : v \in {"true", "false", "undefined"}}

CallerEnvs == {[k \in {"K"} |-> "caller"], [k \in {"LANG"} |-> "caller"]}

EnvChoices == {EmptyObject} \cup {[k \in {"env"} |-> e] : e \in CallerEnvs}

\* spawnOptions; an absent argument assigns nothing, like {}.
SpawnOptionsSet == {ObjectAssign(c, e) : c \in CleanupChoices, e \in EnvChoices}

\* The connection info and the connection file of a caller of
\* launchSpecFromConnectionInfo, who made both.
CallerConfig == createConnectionInfo(<<5555, 5556, 5557, 5558, 5559>>, "caller-key")
CallerPath == "/home/user/connection.json"
CallerFile == [fmt |-> "json", obj |-> CallerConfig]

AllPaths == Paths \cup {CallerPath}

NoArgs ==
    [entry |-> "", kernelName |-> "", specsGiven |-> FALSE, specs |-> NoSpecs,
     spawnOptions |-> EmptyObject, config |-> NoConfig, connectionFile |-> ""]

NoCalls ==
    [findAll |-> 0, getPorts |-> 0, runtimeDir |-> 0, mkdirp |-> 0,
     writeFile |-> 0, execa |-> 0, createMainChannel |-> 0]

(***************************************************************************)
(* Initial state                                                           *)
(***************************************************************************)
\* The state before any call, with the files `fs` on disk.
InitWith(fs) ==
    /\ pc = [l \in Launches |-> "idle"]
    /\ args = [l \in Launches |-> NoArgs]
    /\ kernelSpec = [l \in Launches |-> Undefined]
    /\ calls = [l \in Launches |-> NoCalls]
    /\ ports = [l \in Launches |-> <<>>]
    /\ config = [l \in Launches |-> NoConfig]
    /\ connectionFile = [l \in Launches |-> ""]
    /\ mkdirp = [l \in Launches |-> "none"]
    /\ child = [l \in Launches |-> NoChild]
    /\ outcome = [l \in Launches |-> ""]
    /\ unlinks = [l \in Launches |-> <<>>]
    /\ channels = [l \in Launches |-> "none"]
    /\ files = fs
    /\ dirExists \in BOOLEAN
    /\ coerces \in BOOLEAN
    /\ uuidCount = 0
    /\ console = {}
    /\ uncaught = {}

Init == InitWith([p \in AllPaths |-> Absent])

(***************************************************************************)
(* launch and launchSpec, up to their first await                          *)
(***************************************************************************)
Called(l, fn) == calls' = [calls EXCEPT ![l][fn] = @ + 1]

Reject(l, error) ==
    /\ pc' = [pc EXCEPT ![l] = "rejected"]
    /\ outcome' = [outcome EXCEPT ![l] = error]

\* launchSpec(kernelSpec, spawnOptions): writeConnectionFile() runs up to
\* `await getPorts(5, options)`.
LaunchSpecBody(l, spec) ==
    /\ kernelSpec' = [kernelSpec EXCEPT ![l] = spec]
    /\ Called(l, "getPorts")
    /\ pc' = [pc EXCEPT ![l] = "getPorts"]
    /\ UNCHANGED outcome

\* A launch that scans the registry once whether or not a map was passed.
LaunchBodyAlwaysScans(l, kernelName, specsGiven, specs) ==
    IF calls[l].findAll = 0
    THEN /\ Called(l, "findAll")
         /\ pc' = [pc EXCEPT ![l] = "findAll"]
         /\ UNCHANGED <<kernelSpec, outcome>>
    ELSE IF ~GetSpec(specs, kernelName).truthy
         THEN /\ Reject(l, "No spec available for " \o kernelName)
              /\ UNCHANGED <<kernelSpec, calls>>
         ELSE LaunchSpecBody(l, GetSpec(specs, kernelName).spec)

\* The body of launch(kernelName, spawnOptions, specs).
LaunchBody(l, kernelName, specsGiven, specs) ==
    IF ~specsGiven
    THEN /\ Called(l, "findAll")
         /\ pc' = [pc EXCEPT ![l] = "findAll"]
         /\ UNCHANGED <<kernelSpec, outcome>>
    ELSE IF ~GetSpec(specs, kernelName).truthy
         THEN /\ Reject(l, "No spec available for " \o kernelName)
              /\ UNCHANGED <<kernelSpec, calls>>
         ELSE LaunchSpecBody(l, GetSpec(specs, kernelName).spec)

CallLaunch(l) ==
    /\ pc[l] = "idle"
    /\ \E kernelName \in KernelNames, opts \in SpawnOptionsSet,
          specsGiven \in BOOLEAN, specs \in SpecsMaps :
        /\ specsGiven \/ specs = NoSpecs
        /\ args' = [args EXCEPT ![l] =
                [NoArgs EXCEPT !.entry = "launch", !.kernelName = kernelName,
                               !.specsGiven = specsGiven, !.specs = specs,
                               !.spawnOptions = opts]]
        /\ LaunchBody(l, kernelName, specsGiven, specs)
    /\ UNCHANGED <<ports, config, connectionFile, mkdirp, child, unlinks,
                   files, dirExists, coerces, uuidCount, console, uncaught>>
    /\ UNCHANGED channels

CallLaunchSpecWith(l, kernelSpecs, spawnOptions) ==
    /\ pc[l] = "idle"
    /\ \E spec \in kernelSpecs, opts \in spawnOptions :
        /\ args' = [args EXCEPT ![l] =
                [NoArgs EXCEPT !.entry = "launchSpec", !.spawnOptions = opts]]
        /\ LaunchSpecBody(l, spec)
    /\ UNCHANGED <<ports, config, connectionFile, mkdirp, child, unlinks,
                   files, dirExists, coerces, uuidCount, console, uncaught>>
    /\ UNCHANGED channels

CallLaunchSpec(l) == CallLaunchSpecWith(l, KernelSpecs, SpawnOptionsSet)

\* launchSpec of the python3 kernel spec with no spawn options.
CallLaunchSpecDefault(l) == CallLaunchSpecWith(l, {Python3Spec}, {EmptyObject})

\* findAll() resolves: .then(sp => launch(kernelName, spawnOptions, sp))
FindAllResolve(l) ==
    /\ pc[l] = "findAll"
    /\ \E r \in FindAllResults :
        /\ ~r.truthy => calls[l].findAll < MaxFindAll
        /\ args' = [args EXCEPT ![l].specs = r.specs]
        /\ LaunchBody(l, args[l].kernelName, r.truthy, r.specs)
    /\ UNCHANGED <<ports, config, connectionFile, mkdirp, child, unlinks,
                   files, dirExists, coerces, uuidCount, console, uncaught>>
    /\ UNCHANGED channels

FindAllReject(l) ==
    /\ pc[l] = "findAll"
    /\ Reject(l, "findAll failed")
    /\ UNCHANGED <<args, kernelSpec, calls, ports, config, connectionFile,
                   mkdirp, child, unlinks, files, dirExists, coerces,
                   uuidCount, console, uncaught>>
    /\ UNCHANGED channels

(***************************************************************************)
(* writeConnectionFile                                                     *)
(***************************************************************************)
\* getPorts resolves; the function runs on to `await jp.runtimeDir()`.
GetPortsResolve(l) ==
    /\ pc[l] = "getPorts"
    /\ \E busy \in BusyPortSets :
        ports' = [ports EXCEPT ![l] = GetPorts(PortCount, DefaultPort, busy)]
    /\ Called(l, "runtimeDir")
    /\ pc' = [pc EXCEPT ![l] = "runtimeDir"]
    /\ UNCHANGED <<args, kernelSpec, config, connectionFile, mkdirp, child,
                   outcome, unlinks, files, dirExists, coerces, uuidCount,
                   console, uncaught>>
    /\ UNCHANGED channels

\* A catch that logs and does not rethrow: writeConnectionFile resolves
\* with undefined and launchSpec fails on info.config.
RethrowSwallowed(l, error) ==
    /\ console' = console \cup {error}
    /\ Reject(l, "TypeError: Cannot read property 'config' of undefined")

\* catch (error) { console.log(error); throw error; }
Rethrow(l, error) ==
    /\ console' = console \cup {error}
    /\ Reject(l, error)

GetPortsReject(l) ==
    /\ pc[l] = "getPorts"
    /\ Rethrow(l, "PortAllocationError")
    /\ UNCHANGED <<args, kernelSpec, calls, ports, config, connectionFile,
                   mkdirp, child, unlinks, files, dirExists, coerces,
                   uuidCount, uncaught>>
    /\ UNCHANGED channels

\* runtimeDir is known: mkdirp(runtimeDir, callback) is started and not
\* awaited, the config is built, and the function runs on to the second
\* `await jp.runtimeDir()`.
RuntimeDirResolve(l) ==
    /\ pc[l] = "runtimeDir"
    /\ mkdirp' = [mkdirp EXCEPT ![l] = "pending"]
    /\ config' = [config EXCEPT ![l] = createConnectionInfo(ports[l], Uuid(l, 1))]
    /\ uuidCount' = uuidCount + 1
    /\ calls' = [calls EXCEPT ![l].mkdirp = @ + 1, ![l].runtimeDir = @ + 1]
    /\ pc' = [pc EXCEPT ![l] = "runtimeDir2"]
    /\ UNCHANGED <<args, kernelSpec, ports, connectionFile, child, outcome,
                   unlinks, files, dirExists, coerces, console, uncaught>>
    /\ UNCHANGED channels

\* The path is joined and writeFile(connectionFile, config) is called.
RuntimeDir2Resolve(l) ==
    /\ pc[l] = "runtimeDir2"
    /\ connectionFile' = [connectionFile EXCEPT ![l] = PathJoin(Uuid(l, 2))]
    /\ uuidCount' = uuidCount + 1
    /\ Called(l, "writeFile")
    /\ pc' = [pc EXCEPT ![l] = "writeFile"]
    /\ UNCHANGED <<args, kernelSpec, ports, config, mkdirp, child, outcome,
                   unlinks, files, dirExists, coerces, console, uncaught>>
    /\ UNCHANGED channels

\* mkdirp finishes and calls back: error => { if (error) { throw error; } }.
\* The callback runs outside the async function, so its throw is uncaught.
MkdirpCallback(l) ==
    /\ mkdirp[l] = "pending"
    /\ \/ /\ mkdirp' = [mkdirp EXCEPT ![l] = "done"]
          /\ dirExists' = TRUE
          /\ UNCHANGED uncaught
       \/ /\ ~dirExists
          /\ mkdirp' = [mkdirp EXCEPT ![l] = "failed"]
          /\ uncaught' = uncaught \cup {"mkdirp EACCES"}
          /\ UNCHANGED dirExists
    /\ UNCHANGED <<pc, args, kernelSpec, calls, ports, config, connectionFile,
                   child, outcome, unlinks, files, coerces, uuidCount, console>>
    /\ UNCHANGED channels

(***************************************************************************)
(* launchSpecFromConnectionInfo                                            *)
(***************************************************************************)
\* The synchronous part, up to `await createMainChannel(config)`.
LaunchSpecFromConnectionInfoBody(l, spec, path, spawnOptions) ==
    IF ~spec.defined
    THEN /\ Reject(l, "TypeError: Cannot read property 'argv' of undefined")
         /\ UNCHANGED <<child, calls>>
    ELSE /\ \E exeExists \in BOOLEAN :
            child' = [child EXCEPT ![l] =
                Execa(ExpandArgv(spec.argv, path),
                      FullSpawnOptions(spec, spawnOptions),
                      exeExists)]
         /\ calls' = [calls EXCEPT ![l].execa = @ + 1,
                                   ![l].createMainChannel = @ + 1]
         /\ pc' = [pc EXCEPT ![l] = "createMainChannel"]
         /\ UNCHANGED outcome

\* A launchSpecFromConnectionInfo that writes the config to the path it
\* was given, as writeConnectionFile does.
CallLaunchSpecFromConnectionInfoWriting(l) ==
    /\ pc[l] = "idle"
    /\ \E spec \in KernelSpecs, opts \in SpawnOptionsSet :
        /\ args' = [args EXCEPT ![l] =
                [NoArgs EXCEPT !.entry = "launchSpecFromConnectionInfo",
                               !.spawnOptions = opts,
                               !.config = CallerConfig,
                               !.connectionFile = CallerPath]]
        /\ kernelSpec' = [kernelSpec EXCEPT ![l] = spec]
        /\ config' = [config EXCEPT ![l] = CallerConfig]
        /\ connectionFile' = [connectionFile EXCEPT ![l] = CallerPath]
        /\ LaunchSpecFromConnectionInfoBody(l, spec, CallerPath, opts)
    /\ files' = [files EXCEPT ![CallerPath] = WriteFileData(CallerConfig)]
    /\ UNCHANGED <<ports, mkdirp, unlinks, dirExists, coerces,
                   uuidCount, console, uncaught>>
    /\ UNCHANGED channels

\* launchSpecFromConnectionInfo(kernelSpec, config, connectionFile,
\* spawnOptions), called by a caller with its own config and file.
CallLaunchSpecFromConnectionInfo(l) ==
    /\ pc[l] = "idle"
    /\ \E spec \in KernelSpecs, opts \in SpawnOptionsSet :
        /\ args' = [args EXCEPT ![l] =
                [NoArgs EXCEPT !.entry = "launchSpecFromConnectionInfo",
                               !.spawnOptions = opts,
                               !.config = CallerConfig,
                               !.connectionFile = CallerPath]]
        /\ kernelSpec' = [kernelSpec EXCEPT ![l] = spec]
        /\ config' = [config EXCEPT ![l] = CallerConfig]
        /\ connectionFile' = [connectionFile EXCEPT ![l] = CallerPath]
        /\ LaunchSpecFromConnectionInfoBody(l, spec, CallerPath, opts)
    /\ UNCHANGED <<ports, mkdirp, unlinks, files, dirExists, coerces,
                   uuidCount, console, uncaught>>
    /\ UNCHANGED channels

\* A writeFile that is not awaited: launchSpec goes on to spawn while the
\* data is not on disk.
WriteFileResolveUnflushed(l) ==
    /\ pc[l] = "writeFile"
    /\ LaunchSpecFromConnectionInfoBody(l, kernelSpec[l], connectionFile[l],
                                        args[l].spawnOptions)
    /\ UNCHANGED <<args, kernelSpec, ports, config, connectionFile, mkdirp,
                   unlinks, files, dirExists, coerces, uuidCount, console,
                   uncaught>>
    /\ UNCHANGED channels

\* writeFile resolves; writeConnectionFile returns and launchSpec calls
\* launchSpecFromConnectionInfo in the same run of the event loop.
WriteFileResolve(l) ==
    /\ pc[l] = "writeFile"
    /\ coerces
    /\ dirExists
    /\ files' = [files EXCEPT ![connectionFile[l]] = WriteFileData(config[l])]
    /\ LaunchSpecFromConnectionInfoBody(l, kernelSpec[l], connectionFile[l],
                                        args[l].spawnOptions)
    /\ UNCHANGED <<args, kernelSpec, ports, config, connectionFile, mkdirp,
                   unlinks, dirExists, coerces, uuidCount, console, uncaught>>
    /\ UNCHANGED channels

\* writeFile rejects: the data is refused, the directory is missing, or the
\* write fails.
WriteFileReject(l) ==
    /\ pc[l] = "writeFile"
    /\ \E error \in {"ERR_INVALID_ARG_TYPE", "ENOENT", "EIO"} :
        /\ error = "ERR_INVALID_ARG_TYPE" <=> ~coerces
        /\ error = "ENOENT" => ~dirExists
        /\ error = "EIO" => dirExists
        /\ Rethrow(l, error)
    /\ UNCHANGED <<args, kernelSpec, calls, ports, config, connectionFile,
                   mkdirp, child, unlinks, files, dirExists, coerces,
                   uuidCount, uncaught>>
    /\ UNCHANGED channels

ChannelResolve(l) ==
    /\ pc[l] = "createMainChannel"
    /\ pc' = [pc EXCEPT ![l] = "resolved"]
    /\ channels' = [channels EXCEPT ![l] = "open"]
    /\ UNCHANGED <<args, kernelSpec, calls, ports, config, connectionFile,
                   mkdirp, child, outcome, unlinks, files, dirExists, coerces,
                   uuidCount, console, uncaught>>

\* A channel failure that takes the listeners off the child it abandons.
ChannelRejectUnregisters(l) ==
    /\ pc[l] = "createMainChannel"
    /\ Reject(l, "ChannelOpenError")
    /\ child' = [child EXCEPT ![l].exit = 0, ![l].error = 0]
    /\ UNCHANGED <<args, kernelSpec, calls, ports, config, connectionFile,
                   mkdirp, unlinks, files, dirExists, coerces,
                   uuidCount, console, uncaught>>
    /\ UNCHANGED channels

\* A channel failure that kills the child before rejecting.
ChannelRejectKills(l) ==
    /\ pc[l] = "createMainChannel"
    /\ Reject(l, "ChannelOpenError")
    /\ child' = [child EXCEPT ![l].state = "killed", ![l].signal = "SIGKILL"]
    /\ UNCHANGED <<args, kernelSpec, calls, ports, config, connectionFile,
                   mkdirp, unlinks, files, dirExists, coerces,
                   uuidCount, console, uncaught>>
    /\ UNCHANGED channels

\* createMainChannel rejects: the await throws and the launch rejects; the
\* child is left as it is.
ChannelReject(l) ==
    /\ pc[l] = "createMainChannel"
    /\ Reject(l, "ChannelOpenError")
    /\ UNCHANGED <<args, kernelSpec, calls, ports, config, connectionFile,
                   mkdirp, child, unlinks, files, dirExists, coerces,
                   uuidCount, console, uncaught>>
    /\ UNCHANGED channels

\* The caller closes the Channels handle it was given.
CallerClose(l) ==
    /\ pc[l] = "resolved"
    /\ channels[l] = "open"
    /\ channels' = [channels EXCEPT ![l] = "closed"]
    /\ UNCHANGED <<pc, args, kernelSpec, calls, ports, config, connectionFile,
                   mkdirp, child, outcome, unlinks, files, dirExists, coerces,
                   uuidCount, console, uncaught>>

(***************************************************************************)
(* Events of the child process                                             *)
(***************************************************************************)
\* The child emits `event`; the listener registered for it, if any, runs
\* cleanup(connectionFile).
Emit(l, event, listeners) ==
    IF listeners = 0
    THEN UNCHANGED <<files, unlinks, uncaught, console>>
    ELSE \E fails \in BOOLEAN :
            /\ fails => files[connectionFile[l]].fmt # "absent"
            /\ LET r == cleanup(files, connectionFile[l], fails)
               IN  /\ files' = r.files
                   /\ unlinks' = [unlinks EXCEPT ![l] =
                            Append(@, [event |-> event, err |-> r.err])]
                   /\ uncaught' = IF r.thrown = "" THEN uncaught
                                  ELSE uncaught \cup {"cleanup " \o r.thrown}
                   /\ console' = IF r.logged = "" THEN console
                                 ELSE console \cup {"cleanup " \o r.logged}

\* The executable could not be started: "error" is emitted, "exit" is not.
ChildSpawnError(l) ==
    /\ child[l].state = "noexec"
    /\ child' = [child EXCEPT ![l].state = "failed", ![l].errors = @ + 1]
    /\ Emit(l, "error", child[l].error)
    /\ UNCHANGED <<pc, args, kernelSpec, calls, ports, config, connectionFile,
                   mkdirp, outcome, dirExists, coerces, uuidCount>>
    /\ UNCHANGED channels

\* A running child emits "error" (it could not be killed or messaged).
ChildError(l) ==
    /\ child[l].state = "alive"
    /\ child[l].errors < MaxErrors
    /\ child' = [child EXCEPT ![l].errors = @ + 1]
    /\ Emit(l, "error", child[l].error)
    /\ UNCHANGED <<pc, args, kernelSpec, calls, ports, config, connectionFile,
                   mkdirp, outcome, dirExists, coerces, uuidCount>>
    /\ UNCHANGED channels

\* An exit listener that also closes the channels.
ChildExitClosing(l) ==
    /\ child[l].state = "alive"
    /\ \E signal \in {"", "SIGTERM"} :
        child' = [child EXCEPT ![l].state = "exited", ![l].exits = @ + 1,
                               ![l].signal = signal]
    /\ Emit(l, "exit", child[l].exit)
    /\ channels' = [channels EXCEPT ![l] = IF @ = "open" THEN "closed" ELSE @]
    /\ UNCHANGED <<pc, args, kernelSpec, calls, ports, config, connectionFile,
                   mkdirp, outcome, dirExists, coerces, uuidCount>>

\* The child ends, with an exit code or by a signal.
ChildExit(l) ==
    /\ child[l].state = "alive"
    /\ \E signal \in {"", "SIGTERM"} :
        child' = [child EXCEPT ![l].state = "exited", ![l].exits = @ + 1,
                               ![l].signal = signal]
    /\ Emit(l, "exit", child[l].exit)
    /\ UNCHANGED <<pc, args, kernelSpec, calls, ports, config, connectionFile,
                   mkdirp, outcome, dirExists, coerces, uuidCount>>
    /\ UNCHANGED channels

(***************************************************************************)
(* Specification                                                           *)
(***************************************************************************)
Step(l) ==
    \/ CallLaunch(l)
    \/ CallLaunchSpec(l)
    \/ FindAllResolve(l)
    \/ FindAllReject(l)
    \/ GetPortsResolve(l)
    \/ GetPortsReject(l)
    \/ RuntimeDirResolve(l)
    \/ RuntimeDir2Resolve(l)
    \/ MkdirpCallback(l)
    \/ WriteFileResolve(l)
    \/ WriteFileReject(l)
    \/ ChannelResolve(l)
    \/ ChannelReject(l)
    \/ CallerClose(l)
    \/ ChildSpawnError(l)
    \/ ChildError(l)
    \/ ChildExit(l)

\* One call, with every input.
Next == Step(1)

Spec == Init /\ [][Next]_vars

\* MaxLaunches calls of launchSpec in flight together, each of the python3
\* kernel spec with no spawn options, on a host whose runtime directory
\* exists and whose collaborators succeed; the children fail to start or
\* exit at any time.
InitConcurrent == Init /\ dirExists /\ coerces

StepConcurrent(l) ==
    \/ CallLaunchSpecDefault(l)
    \/ GetPortsResolve(l)
    \/ RuntimeDirResolve(l)
    \/ RuntimeDir2Resolve(l)
    \/ MkdirpCallback(l)
    \/ WriteFileResolve(l)
    \/ ChannelResolve(l)
    \/ ChildSpawnError(l)
    \/ ChildExit(l)

NextConcurrent == \E l \in Launches : StepConcurrent(l)

SpecConcurrent == InitConcurrent /\ [][NextConcurrent]_vars

\* One call of launchSpecFromConnectionInfo, by a caller whose connection
\* file is on disk.
InitFromConnectionInfo ==
    InitWith([p \in AllPaths |-> IF p = CallerPath THEN CallerFile ELSE Absent])

NextFromConnectionInfo ==
    \/ CallLaunchSpecFromConnectionInfo(1)
    \/ ChannelResolve(1)
    \/ ChannelReject(1)
    \/ CallerClose(1)
    \/ ChildSpawnError(1)
    \/ ChildError(1)
    \/ ChildExit(1)

SpecFromConnectionInfo == InitFromConnectionInfo /\ [][NextFromConnectionInfo]_vars

(***************************************************************************)
(* Properties                                                              *)
(***************************************************************************)
Spawned(l) == child[l].state # "none"

FileExists(l) == files[connectionFile[l]].fmt # "absent"

\* The caller did not pass cleanupConnectionFile: false.
CleanupRequested(l) ==
    ~ ("cleanupConnectionFile" \in DOMAIN args[l].spawnOptions
       /\ args[l].spawnOptions["cleanupConnectionFile"] = "false")

\* The JSON text of an object, and the reading of a file's bytes as JSON:
\* the object, or a SyntaxError for bytes that are no JSON text.
JSONStringify(obj) == [fmt |-> "json", obj |-> obj]

JSONParse(bytes) ==
    IF bytes.fmt = "json"
    THEN [ok |-> TRUE, value |-> bytes.obj]
    ELSE [ok |-> FALSE, value |-> NoConfig]

UnlinksOf(l, event) == {i \in DOMAIN unlinks[l] : unlinks[l][i].event = event}

\* C1: whenever a launch of a kernel spec has written its connection file,
\* the bytes on disk parse as JSON to exactly the config of that launch.
C1_FileDeserializesToConfig ==
    \A l \in Launches :
        (kernelSpec[l].defined /\ calls[l].writeFile > 0 /\ FileExists(l)) =>
            JSONParse(files[connectionFile[l]]) = [ok |-> TRUE, value |-> config[l]]

\* C2: when the child reports a spawn error, the launch never resolves, and
\* if it has rejected it rejected with the spawn error.
C2_SpawnErrorRejectsLaunch ==
    \A l \in Launches :
        child[l].state = "failed" =>
            /\ pc[l] # "resolved"
            /\ pc[l] = "rejected" => outcome[l] = "spawn ENOENT"

\* C3 as stated: with cleanup enabled, once the child has emitted an error
\* event the connection file is absent from disk.
C3_ErrorAlwaysDeletes ==
    \A l \in Launches :
        (CleanupRequested(l) /\ child[l].errors > 0) => ~FileExists(l)

\* C3, amended: with cleanup enabled, every error event of the child runs
\* cleanup, whatever the state of channel opening, and the connection file
\* is absent once one of these runs did not fail to unlink it.
C3_ErrorCleanup ==
    \A l \in Launches :
        (CleanupRequested(l) /\ child[l].errors > 0) =>
            /\ Cardinality(UnlinksOf(l, "error")) = child[l].errors
            /\ (\E i \in UnlinksOf(l, "error") : unlinks[l][i].err # "EPERM")
                    => ~FileExists(l)

C3_Witness ==
    \E l \in Launches :
        /\ CleanupRequested(l)
        /\ child[l].state = "failed"
        /\ pc[l] = "createMainChannel"
        /\ unlinks[l] = <<[event |-> "error", err |-> "none"]>>
        /\ ~FileExists(l)

\* C4: with cleanup enabled, once the child has exited (with a code or by a
\* signal) or emitted an error, the connection file is absent, provided no
\* unlink failed.
C4_TerminationCleanup ==
    \A l \in Launches :
        ( /\ CleanupRequested(l)
          /\ child[l].exits + child[l].errors > 0
          /\ \A i \in DOMAIN unlinks[l] : unlinks[l][i].err # "EPERM" )
        => ~FileExists(l)

C4_Witness ==
    \E l \in Launches :
        /\ CleanupRequested(l)
        /\ child[l].state = "exited"
        /\ child[l].signal = "SIGTERM"
        /\ unlinks[l] = <<[event |-> "exit", err |-> "none"]>>
        /\ ~FileExists(l)

\* C5: with cleanupConnectionFile exactly false no listener is registered
\* and the written file stays on disk through every exit and error event;
\* with any other value both listeners are registered.
C5_CleanupOption ==
    \A l \in Launches :
        Spawned(l) =>
            IF CleanupRequested(l)
            THEN child[l].exit = 1 /\ child[l].error = 1
            ELSE /\ child[l].exit = 0 /\ child[l].error = 0
                 /\ unlinks[l] = <<>>
                 /\ FileExists(l)

C5_Witness ==
    \E l \in Launches :
        /\ ~CleanupRequested(l)
        /\ child[l].state = "exited"
        /\ child[l].errors > 0
        /\ FileExists(l)

\* C6: no cleanup invocation raises, at most one of them removes the file,
\* every invocation after the file is gone finds it gone, and an invocation
\* on a missing file leaves the file system unchanged.
C6_CleanupIdempotent ==
    /\ [](\A l \in Launches :
            /\ \A e \in uncaught : e \notin {"cleanup ENOENT", "cleanup EPERM"}
            /\ Cardinality({i \in DOMAIN unlinks[l] : unlinks[l][i].err = "none"}) <= 1
            /\ \A i, j \in DOMAIN unlinks[l] :
                (i < j /\ unlinks[l][i].err \in {"none", "ENOENT"})
                    => unlinks[l][j].err = "ENOENT")
    /\ [][\A l \in Launches :
            (unlinks'[l] # unlinks[l] /\ ~FileExists(l))
                => (files' = files /\ uncaught' = uncaught)]_vars

C6_Witness ==
    \E l \in Launches :
        unlinks[l] = <<[event |-> "error", err |-> "none"],
                       [event |-> "exit", err |-> "ENOENT"]>>

CallerEnv(l) ==
    IF "env" \in DOMAIN args[l].spawnOptions
    THEN args[l].spawnOptions["env"]
    ELSE EmptyObject

\* C7: for every key of the ambient environment, the child's environment
\* holds the caller's value if the caller sets the key, else the kernel
\* spec's value if the spec sets it, else the ambient value.
C7_EnvPrecedence ==
    \A l \in Launches :
        Spawned(l) =>
            \A k \in DOMAIN ProcessEnv :
                /\ k \in DOMAIN child[l].env
                /\ child[l].env[k] =
                    IF k \in DOMAIN CallerEnv(l) THEN CallerEnv(l)[k]
                    ELSE IF k \in DOMAIN kernelSpec[l].env THEN kernelSpec[l].env[k]
                    ELSE ProcessEnv[k]

\* C8: the spawned command (file and arguments) has the length of the
\* spec's argv; each placeholder token is the connection file path and
\* every other token is unchanged and in place.
C8_ArgvExpansion ==
    \A l \in Launches :
        Spawned(l) =>
            LET cmd == <<child[l].file>> \o child[l].args
                argv == kernelSpec[l].argv
            IN  /\ Len(cmd) = Len(argv)
                /\ \A i \in DOMAIN argv :
                    cmd[i] = IF argv[i] = "{connection_file}"
                             THEN connectionFile[l] ELSE argv[i]

C8_Witness ==
    \E l \in Launches :
        /\ Spawned(l)
        /\ kernelSpec[l] = IRSpec
        /\ child[l].args = <<connectionFile[l], "--file={connection_file}",
                             connectionFile[l]>>

\* launch has looked the kernel name up in the specs map.
LookedUp(l) ==
    /\ args[l].entry = "launch"
    /\ \/ args[l].specsGiven
       \/ pc[l] \notin {"idle", "findAll"} /\ outcome[l] # "findAll failed"

\* C9: a launch by a name absent from the specs map has rejected with a
\* message naming the kernel, and has allocated no ports, written no file,
\* spawned no process and opened no channels.
C9_MissingKernelRejects ==
    \A l \in Launches :
        (LookedUp(l) /\ args[l].kernelName \notin DOMAIN args[l].specs) =>
            /\ pc[l] = "rejected"
            /\ outcome[l] = "No spec available for " \o args[l].kernelName
            /\ calls[l].getPorts = 0
            /\ calls[l].writeFile = 0
            /\ calls[l].execa = 0
            /\ calls[l].createMainChannel = 0

\* C10: the steps of the launch of a kernel spec start in order, each after
\* its predecessor has completed: ports, runtime directory, file write,
\* spawn with its listeners, channels, return.
C10_StepOrder ==
    \A l \in Launches :
        kernelSpec[l].defined =>
        /\ calls[l].mkdirp > 0 => Len(ports[l]) = PortCount
        /\ calls[l].writeFile > 0 => mkdirp[l] = "done"
        /\ calls[l].execa > 0 =>
            calls[l].writeFile > 0 /\ pc[l] # "writeFile"
        /\ calls[l].createMainChannel > 0 => Spawned(l)
        /\ pc[l] = "resolved" => calls[l].createMainChannel > 0

\* getPorts of the launch has rejected.
GetPortsFailed(l) ==
    calls[l].getPorts > 0 /\ pc[l] # "getPorts" /\ ports[l] = <<>>

\* C11: once getPorts has rejected, the launch has rejected with the
\* allocation error and has written no file, spawned no child and opened no
\* channels.
C11_PortFailureFailsFast ==
    \A l \in Launches :
        GetPortsFailed(l) =>
            /\ pc[l] = "rejected"
            /\ outcome[l] = "PortAllocationError"
            /\ calls[l].mkdirp = 0
            /\ calls[l].writeFile = 0
            /\ calls[l].execa = 0
            /\ calls[l].createMainChannel = 0
            /\ connectionFile[l] = ""
            /\ ~Spawned(l)
            /\ channels[l] = "none"
            /\ \A p \in Paths : files[p].fmt = "absent"

C11_Witness ==
    \E l \in Launches :
        /\ GetPortsFailed(l)
        /\ pc[l] = "rejected"
        /\ "PortAllocationError" \in console

\* writeFile of the launch has rejected: the call is over and the file was
\* never on disk.
WriteFailed(l) ==
    /\ calls[l].writeFile > 0
    /\ pc[l] # "writeFile"
    /\ ~FileExists(l)
    /\ unlinks[l] = <<>>

\* C12: when the runtime directory cannot be created or the file cannot be
\* written, the launch rejects with that error, the error is not raised
\* outside the launch promise, and no child is spawned.
C12_IOErrorRejects ==
    \A l \in Launches :
        /\ mkdirp[l] = "failed" =>
            /\ "mkdirp EACCES" \notin uncaught
            /\ pc[l] \in {"resolved", "rejected"} =>
                (pc[l] = "rejected" /\ outcome[l] = "mkdirp EACCES")
            /\ ~Spawned(l)
        /\ WriteFailed(l) =>
            /\ pc[l] = "rejected"
            /\ outcome[l] \in {"ERR_INVALID_ARG_TYPE", "ENOENT", "EIO"}
            /\ ~Spawned(l)

\* C13: the step in which a launch rejects because createMainChannel failed
\* rejects with the channel error and leaves the child as it was.
C13_ChannelFailureKeepsChild ==
    [][\A l \in Launches :
        (pc[l] = "createMainChannel" /\ pc'[l] = "rejected") =>
            /\ outcome'[l] = "ChannelOpenError"
            /\ child'[l] = child[l]]_vars

C13_Witness ==
    \E l \in Launches :
        /\ pc[l] = "rejected"
        /\ outcome[l] = "ChannelOpenError"
        /\ child[l].state = "alive"

\* C14: every collaborator is called at most once per launch, and a launch
\* in which port allocation, the file write, the spawn or the channel
\* opening failed does not resolve.
C14_NoRetriesFailFast ==
    \A l \in Launches :
        /\ calls[l].getPorts <= 1
        /\ calls[l].writeFile <= 1
        /\ calls[l].execa <= 1
        /\ calls[l].createMainChannel <= 1
        /\ (GetPortsFailed(l) \/ WriteFailed(l) \/ child[l].state = "failed")
                => pc[l] # "resolved"

\* C15 as stated: concurrent launches have pairwise distinct connection
\* files and port sets of their own, and a kernel that has not exited or
\* failed still has its file.
C15_OwnPathAndPorts ==
    \A l, m \in Launches :
        /\ (l # m /\ connectionFile[l] # "" /\ connectionFile[m] # "")
                => connectionFile[l] # connectionFile[m]
        /\ (l # m /\ ports[l] # <<>> /\ ports[m] # <<>>)
                => {ports[l][i] : i \in DOMAIN ports[l]}
                    \cap {ports[m][i] : i \in DOMAIN ports[m]} = {}
        /\ (Spawned(m) /\ child[m].exits + child[m].errors = 0) => FileExists(m)

\* C15, amended: concurrent launches have pairwise distinct connection
\* files, and a kernel that has not exited or failed still has its file,
\* whatever the other launches' cleanups did.
C15_OwnPathAndCleanup ==
    \A l, m \in Launches :
        /\ (l # m /\ connectionFile[l] # "" /\ connectionFile[m] # "")
                => connectionFile[l] # connectionFile[m]
        /\ (Spawned(m) /\ child[m].exits + child[m].errors = 0) => FileExists(m)

C15_Witness ==
    \E l, m \in Launches :
        /\ l # m
        /\ child[l].state = "exited"
        /\ unlinks[l] = <<[event |-> "exit", err |-> "none"]>>
        /\ child[m].state = "alive"
        /\ FileExists(m)
        /\ ports[l] = ports[m]

\* C16: the config's ports are the allocator's result by position: hb,
\* control, shell, stdin, iopub from ports[0..4].
C16_PortPositions ==
    \A l \in Launches :
        config[l] # NoConfig =>
            /\ Len(ports[l]) = 5
            /\ config[l].hb_port = ports[l][1]
            /\ config[l].control_port = ports[l][2]
            /\ config[l].shell_port = ports[l][3]
            /\ config[l].stdin_port = ports[l][4]
            /\ config[l].iopub_port = ports[l][5]

C16_Witness ==
    \E l \in Launches :
        /\ pc[l] = "resolved"
        /\ ports[l] = <<9000, 9003, 9004, 9005, 9006>>
        /\ config[l].control_port = 9003
        /\ config[l].iopub_port = 9006

\* C17: the five ports of every config are pairwise distinct.
C17_DistinctPorts ==
    \A l \in Launches :
        config[l] # NoConfig =>
            Cardinality({config[l].hb_port, config[l].control_port,
                         config[l].shell_port, config[l].stdin_port,
                         config[l].iopub_port}) = 5

C17_Witness ==
    \E l \in Launches :
        /\ config[l] # NoConfig
        /\ config[l].hb_port = 9000
        /\ config[l].control_port = 9003
        /\ Spawned(l)

\* C18: a step in which the child emits exit or error leaves the channels
\* and the launch as they were, leaves a running child running after an
\* error, and changes no file but the connection file of that child.
C18_OnlyFileReleased ==
    [][\A l \in Launches :
        (child[l].exits + child[l].errors # child'[l].exits + child'[l].errors) =>
            /\ channels' = channels
            /\ pc' = pc
            /\ (child[l].state = "alive" /\ child'[l].exits = child[l].exits)
                    => child'[l].state = "alive"
            /\ \A p \in Paths \ {connectionFile[l]} : files'[p] = files[p]]_vars

C18_Witness ==
    \E l \in Launches :
        /\ pc[l] = "resolved"
        /\ child[l].state = "exited"
        /\ unlinks[l] = <<[event |-> "exit", err |-> "none"]>>
        /\ channels[l] = "open"

\* C19: every key of the ambient environment and of the kernel spec's env
\* that the caller's env does not set is in the child's environment, with
\* the spec's value if the spec sets it and the ambient value otherwise.
C19_EnvOverlay ==
    \A l \in Launches :
        Spawned(l) =>
            \A k \in (DOMAIN ProcessEnv \cup DOMAIN kernelSpec[l].env)
                        \ DOMAIN CallerEnv(l) :
                /\ k \in DOMAIN child[l].env
                /\ child[l].env[k] =
                    IF k \in DOMAIN kernelSpec[l].env THEN kernelSpec[l].env[k]
                    ELSE ProcessEnv[k]

\* C20: a cleanup whose unlink finds the file gone logs and raises nothing;
\* a cleanup whose unlink fails otherwise is logged and not raised.
C20_DeleteFailuresDistinguished ==
    \A l \in Launches :
        \A i \in DOMAIN unlinks[l] :
            /\ unlinks[l][i].err = "ENOENT" =>
                ("cleanup ENOENT" \notin console /\ "cleanup ENOENT" \notin uncaught)
            /\ unlinks[l][i].err = "EPERM" =>
                ("cleanup EPERM" \in console /\ "cleanup EPERM" \notin uncaught)

\* C21: with cleanup enabled, every spawned child has exactly one exit
\* listener and one error listener from the state in which it exists on,
\* and every exit or error event it has emitted has run cleanup.
C21_ListenersWithSpawn ==
    \A l \in Launches :
        (Spawned(l) /\ CleanupRequested(l)) =>
            /\ child[l].exit = 1
            /\ child[l].error = 1
            /\ Cardinality(UnlinksOf(l, "exit")) = child[l].exits
            /\ Cardinality(UnlinksOf(l, "error")) = child[l].errors

C21_Witness ==
    \E l \in Launches :
        /\ CleanupRequested(l)
        /\ pc[l] = "createMainChannel"
        /\ child[l].state = "exited"
        /\ child[l].errors = 1
        /\ Len(unlinks[l]) = 2

\* The call went through launchSpec (directly or from launch).
ThroughLaunchSpec(l) == calls[l].getPorts > 0

\* C22: a child spawned through launchSpec exists only after writeFile has
\* resolved, and while it has emitted no event the connection file is on
\* disk with the bytes writeFile stored for the config.
C22_WrittenBeforeSpawn ==
    \A l \in Launches :
        (ThroughLaunchSpec(l) /\ Spawned(l)) =>
            /\ calls[l].writeFile = 1
            /\ pc[l] \in {"createMainChannel", "resolved", "rejected"}
            /\ child[l].exits + child[l].errors = 0 =>
                /\ FileExists(l)
                /\ files[connectionFile[l]] = WriteFileData(config[l])

C22_Witness ==
    \E l \in Launches :
        /\ args[l].entry = "launchSpec"
        /\ child[l].state = "alive"
        /\ child[l].exits + child[l].errors = 0
        /\ pc[l] = "createMainChannel"
        /\ FileExists(l)

\* C23: a launch given a specs map never calls findAll; a launch given none
\* calls it, and the lookup, once made, is made in the map findAll resolved
\* with: the spec launched is that map's entry, and a name with no entry
\* rejects.
C23_SuppliedMapSkipsScan ==
    \A l \in Launches :
        args[l].entry = "launch" =>
            /\ args[l].specsGiven => calls[l].findAll = 0
            /\ ~args[l].specsGiven => calls[l].findAll >= 1
            /\ LookedUp(l) =>
                IF GetSpec(args[l].specs, args[l].kernelName).truthy
                THEN kernelSpec[l] = GetSpec(args[l].specs, args[l].kernelName).spec
                ELSE /\ pc[l] = "rejected"
                     /\ outcome[l] = "No spec available for " \o args[l].kernelName

C23_Witness ==
    \E l \in Launches :
        /\ args[l].entry = "launch"
        /\ args[l].specsGiven
        /\ args[l].kernelName = "ir"
        /\ kernelSpec[l] = IRSpec
        /\ pc[l] = "resolved"
        /\ calls[l].findAll = 0

\* C24: a launch by name without a specs map calls findAll exactly once,
\* whatever findAll resolves with.
C24_FindAllOnce ==
    \A l \in Launches :
        (args[l].entry = "launch" /\ ~args[l].specsGiven) =>
            calls[l].findAll = 1

\* The launch rejected because createMainChannel failed; its child, if it
\* still runs, is with no owner.
Orphaned(l) == pc[l] = "rejected" /\ outcome[l] = "ChannelOpenError"

\* C25 as stated: with cleanup enabled, every exit or error event of the
\* child of a launch rejected on channel failure leaves the connection file
\* absent.
C25_OrphanAlwaysDeletes ==
    [][\A l \in Launches :
        ( /\ Orphaned(l)
          /\ CleanupRequested(l)
          /\ child'[l].exits + child'[l].errors > child[l].exits + child[l].errors )
        => files'[connectionFile[l]].fmt = "absent"]_vars

\* C25, amended: with cleanup enabled, every exit or error event of the
\* child of a launch rejected on channel failure runs cleanup on the
\* connection file, and leaves it absent unless the unlink failed.
C25_OrphanCleanup ==
    [][\A l \in Launches :
        ( /\ Orphaned(l)
          /\ CleanupRequested(l)
          /\ child'[l].exits + child'[l].errors > child[l].exits + child[l].errors )
        => /\ Len(unlinks'[l]) = Len(unlinks[l]) + 1
           /\ unlinks'[l][Len(unlinks'[l])].err # "EPERM"
                => files'[connectionFile[l]].fmt = "absent"]_vars

C25_Witness ==
    \E l \in Launches :
        /\ Orphaned(l)
        /\ CleanupRequested(l)
        /\ child[l].state = "exited"
        /\ unlinks[l] = <<[event |-> "exit", err |-> "none"]>>
        /\ ~FileExists(l)

\* The call is one of launchSpecFromConnectionInfo by its caller.
FromConnectionInfo(l) == args[l].entry = "launchSpecFromConnectionInfo"

\* What C26 says of the ports, the file and the returned values: no ports
\* are allocated, nothing is written, the config and the path are the
\* caller's, and the caller's file is as the caller left it until the
\* child's first event.
C26_Frame(l) ==
    /\ calls[l].getPorts = 0
    /\ ports[l] = <<>>
    /\ calls[l].mkdirp = 0
    /\ calls[l].writeFile = 0
    /\ config[l] = args[l].config
    /\ connectionFile[l] = args[l].connectionFile
    /\ \A p \in Paths : files[p].fmt = "absent"
    /\ child[l].exits + child[l].errors = 0 => files[CallerPath] = CallerFile

\* C26 as stated: the frame, and with cleanup enabled the caller's file is
\* absent once the child has exited or emitted an error.
C26_SuppliedFileDeleted ==
    \A l \in Launches :
        FromConnectionInfo(l) =>
            /\ C26_Frame(l)
            /\ (CleanupRequested(l) /\ child[l].exits + child[l].errors > 0)
                    => ~FileExists(l)

\* C26, amended: the frame, and with cleanup enabled every exit and error
\* event of the child runs cleanup on the caller's file, which is absent
\* once the child has exited or emitted an error unless an unlink failed.
C26_SuppliedFileCleanup ==
    \A l \in Launches :
        FromConnectionInfo(l) =>
            /\ C26_Frame(l)
            /\ CleanupRequested(l) =>
                /\ Len(unlinks[l]) = child[l].exits + child[l].errors
                /\ ( /\ child[l].exits + child[l].errors > 0
                     /\ \A i \in DOMAIN unlinks[l] : unlinks[l][i].err # "EPERM" )
                    => files[CallerPath].fmt = "absent"

C26_Witness ==
    \E l \in Launches :
        /\ FromConnectionInfo(l)
        /\ CleanupRequested(l)
        /\ pc[l] = "resolved"
        /\ config[l] = CallerConfig
        /\ child[l].state = "exited"
        /\ unlinks[l] = <<[event |-> "exit", err |-> "none"]>>
        /\ files[CallerPath].fmt = "absent"

====
